---- MODULE Spec2Model ----
(***************************************************************************)
(* A model of the Conical experiment class (src/src/conical.js): one       *)
(* Experiment instance at a time operating on a persistent localStorage,   *)
(* which outlives the instance.  Constructing again replaces the instance  *)
(* and keeps the store, as a page reload does.                             *)
(*                                                                         *)
(* Representation of JavaScript values:                                    *)
(*   - an optional value (undefined / null / NaN) is the empty tuple <<>>, *)
(*     a present value v is the one-element tuple <<v>>;                   *)
(*   - a localStorage item is a string: the decimal string of a number is  *)
(*     the tuple of its digit characters, the JSON text of an object is    *)
(*     the tuple of its <<field, value>> pairs; no item is <<>>;           *)
(*   - a value in [0,1] (a draw, a weight, a sample size) is an integer    *)
(*     count of Unit-ths.                                                  *)
(* Whether window.localStorage is defined is an input of every call that   *)
(* reaches the store: the environment may change it between calls.         *)
(* Variant actions are functions that return normally; handlers may throw. *)
(***************************************************************************)
EXTENDS Integers, Sequences, FiniteSets

VARIABLES store, now, exp, last, tabs

vars == <<store, now, exp, last, tabs>>

----------------------------------------------------------------------------
(* Bounds of the model *)

MaxVariants == 2
MaxHandlers == 2
MaxTime == 1
Scale == 10

----------------------------------------------------------------------------
(* Program constants *)

min == 0
max == 100000
uidKey == "conical_uid"
storagePrefix == "experiment_"
NotParticipatingId == "not-participating"
NoChosenVariantId == "no-chosen-variant"

(* 1.0 as a count of the fixed-point unit: Scale steps per identity (the   *)
(* products r * max and max * sampleSize are then r \div Scale and         *)
(* sampleSize \div Scale identities, without leaving 32-bit integers)      *)
Unit == Scale * max
DefaultWeight == Unit \div 2
DefaultSampleSize == Unit

----------------------------------------------------------------------------
(* Input domains *)

(* experiment ids; the empty string passes the constructor's check *)
ExpIds == {"test", ""}
(* the id of a second experiment on the same store *)
OtherExpIds == {"other"}
VariantIds == {"variant-A", "variant-B"}
Events == {"start", "complete"}
Callbacks == {"h1", "hThrow"}
(* Draws of options.random(): 0.000009, 0.1 and 0.34702; 0.34702 and 0.9 *)
Draws == {9, Unit \div 10, 347020}
LifecycleDraws == {347020, 9 * (Unit \div 10)}
(* options.sampleSize: 0, 0.2, 2 (clamped to 1), or not given *)
SampleSizeOptions == {<<>>, <<0>>, <<Unit \div 5>>, <<2 * Unit>>}
(* options.expiry: a Date at time 0, or not given *)
ExpiryOptions == {<<>>, <<0>>}
(* options.weight of addVariant: 0.3 or 0.7; not given or 0 *)
GivenWeights == {<<3 * (Unit \div 10)>>, <<7 * (Unit \div 10)>>}
DefaultedWeights == {<<>>, <<0>>}

----------------------------------------------------------------------------
(* Strings and JSON *)

Null == <<>>
UndefinedValue == <<>>
NaN == <<>>

DigitChars == <<"0", "1", "2", "3", "4", "5", "6", "7", "8", "9">>

RECURSIVE NumberToString(_)
(* String(n) for a non-negative integer n *)
NumberToString(n) ==
  IF n < 10 THEN <<DigitChars[n + 1]>>
  ELSE Append(NumberToString(n \div 10), DigitChars[(n % 10) + 1])

DigitValue(c) == CHOOSE d \in 0..9 : DigitChars[d + 1] = c

RECURSIVE ParseDigits(_)
ParseDigits(s) ==
  IF Len(s) = 0 THEN 0
  ELSE 10 * ParseDigits(SubSeq(s, 1, Len(s) - 1)) + DigitValue(s[Len(s)])

(* parseInt(item): NaN for null, else the number the digits spell *)
parseInt(item) == IF item = Null THEN NaN ELSE <<ParseDigits(item)>>

(* JSON.stringify of an object given as a function from field to value *)
JSONstringify(obj) ==
  LET fields == DOMAIN obj
      RECURSIVE Ser(_)
      Ser(fs) == IF fs = {} THEN <<>>
                 ELSE LET f == CHOOSE x \in fs : TRUE
                      IN  <<<<f, obj[f]>>>> \o Ser(fs \ {f})
  IN  Ser(fields)

(* JSON.parse of such a text *)
JSONparse(text) ==
  [f \in {text[i][1] : i \in 1..Len(text)} |->
     (CHOOSE p \in {text[i] : i \in 1..Len(text)} : p[1] = f)[2]]

----------------------------------------------------------------------------
(* The store: localStorage, a function from key to item or Null *)

experimentKey(id) == storagePrefix \o id

Keys == {uidKey} \cup {experimentKey(id) : id \in ExpIds \cup OtherExpIds}

getItem(st, key) == st[key]
setItem(st, key, item) == [st EXCEPT ![key] = item]
removeItem(st, key) == [st EXCEPT ![key] = Null]

(* Store accessors of the class; each is reached only after container()   *)
(* has returned, i.e. with the store available.                           *)
setId(st, id) == setItem(st, uidKey, NumberToString(id))
getId(st) == parseInt(getItem(st, uidKey))

setVariant(e, st, variant) ==
  setItem(st, experimentKey(e.id), JSONstringify([id |-> variant.id]))

getVariant(e, st) ==
  LET variant == getItem(st, experimentKey(e.id))
  IN  IF variant # Null THEN <<JSONparse(variant)>> ELSE UndefinedValue

(* clearVariant() that removes nothing *)
clearVariant_KeepsItem(e, st) == st

clearVariant(e, st) == removeItem(st, experimentKey(e.id))

(* !!x for a number and for an object-or-undefined *)
TruthyNumber(x) == x # NaN /\ x[1] # 0
TruthyObject(x) == x # UndefinedValue

hasId(st) == TruthyNumber(getId(st))

isParticipating(e, st) == TruthyObject(getVariant(e, st))

----------------------------------------------------------------------------
(* container(): returns localStorage when it is defined, throws otherwise *)
container(av) == av

(* hasExpired() with >= in place of > *)
hasExpired_AtExpiry(e, t) == e.expiry # UndefinedValue /\ t >= e.expiry[1]

(* hasExpired(): new Date() > this.options.expiry; a comparison with an   *)
(* undefined expiry is false                                              *)
hasExpired(e, t) == e.expiry # UndefinedValue /\ t > e.expiry[1]

(* Math.round in place of Math.floor *)
RandomId_Rounds(r) == (r + Scale \div 2) \div Scale + min

(* Math.floor(r * max + min) for a draw of r Unit-ths *)
RandomId(r) == r \div Scale + min

(* assignId(): reuse the stored id when hasId(), else generate and store  *)
(* one from a draw.  [store, id, draws]                                   *)
assignId(st, r) ==
  IF hasId(st)
  THEN [store |-> st, id |-> getId(st), draws |-> 0]
  ELSE [store |-> setId(st, RandomId(r)), id |-> <<RandomId(r)>>, draws |-> 1]

Clamp(x, lo, hi) == IF x < lo THEN lo ELSE IF x > hi THEN hi ELSE x

(* canParticipate() that ignores the sample size *)
canParticipate_IgnoresSampleSize(e, st) == getId(st) # NaN

(* canParticipate(): getId() < max * clamp(sampleSize, 0, 1) *)
canParticipate(e, st) ==
  LET sampleSize == Clamp(e.sampleSize, 0, Unit)
      id == getId(st)
  IN  id # NaN /\ id[1] * Scale < sampleSize

RECURSIVE AllocateFrom(_, _, _, _)
AllocateFrom(variants, i, cumerlativeWeight, randomVariant) ==
  IF i > Len(variants) THEN [id |-> NoChosenVariantId]
  ELSE LET c == cumerlativeWeight + variants[i].weight
       IN  IF c >= randomVariant THEN [id |-> variants[i].id]
           ELSE AllocateFrom(variants, i + 1, c, randomVariant)

RECURSIVE AllocateFrom_NoSum(_, _, _)
AllocateFrom_NoSum(variants, i, randomVariant) ==
  IF i > Len(variants) THEN [id |-> NoChosenVariantId]
  ELSE IF variants[i].weight >= randomVariant THEN [id |-> variants[i].id]
       ELSE AllocateFrom_NoSum(variants, i + 1, randomVariant)

(* allocateVariant() that compares each weight alone: = instead of +=     *)
allocateVariant_NoSum(variants, randomVariant) ==
  AllocateFrom_NoSum(variants, 1, randomVariant)

(* allocateVariant(): the first variant whose cumulative weight reaches   *)
(* the draw, else the no-chosen-variant sentinel                          *)
allocateVariant(variants, randomVariant) ==
  AllocateFrom(variants, 1, 0, randomVariant)

participating(e, st, r) == setVariant(e, st, allocateVariant(e.variants, r))
notParticipating(e, st) == setVariant(e, st, [id |-> NotParticipatingId])

(* Result of a call: how it ended, the store after it, the draws it       *)
(* consumed                                                               *)
Result(outcome, st, draws) == [outcome |-> outcome, store |-> st, draws |-> draws]

(* segment() without the clearVariant() of the expired branch *)
segment_ExpiredKeepsVariant(e, st, av, t, r) ==
  IF hasExpired(e, t) THEN Result("expired", st, 0)
  ELSE IF Len(e.variants) <= 0 THEN Result("no-variants", st, 0)
  ELSE IF ~container(av) THEN Result("storage-unavailable", st, 0)
  ELSE IF isParticipating(e, st) THEN Result("ok", st, 0)
  ELSE IF canParticipate(e, st) THEN Result("ok", participating(e, st, r), 1)
  ELSE Result("ok", notParticipating(e, st), 0)

(* segment() without the early return of a user already segmented *)
segment_SegmentsAgain(e, st, av, t, r) ==
  IF hasExpired(e, t)
  THEN IF container(av)
       THEN Result("expired", clearVariant(e, st), 0)
       ELSE Result("storage-unavailable", st, 0)
  ELSE IF Len(e.variants) <= 0 THEN Result("no-variants", st, 0)
  ELSE IF ~container(av) THEN Result("storage-unavailable", st, 0)
  ELSE IF canParticipate(e, st) THEN Result("ok", participating(e, st, r), 1)
  ELSE Result("ok", notParticipating(e, st), 0)

(* segment() with the no-variants check after the participation check *)
segment_VariantsCheckedLate(e, st, av, t, r) ==
  IF hasExpired(e, t)
  THEN IF container(av)
       THEN Result("expired", clearVariant(e, st), 0)
       ELSE Result("storage-unavailable", st, 0)
  ELSE IF ~container(av) THEN Result("storage-unavailable", st, 0)
  ELSE IF isParticipating(e, st) THEN Result("ok", st, 0)
  ELSE IF Len(e.variants) <= 0 THEN Result("no-variants", st, 0)
  ELSE IF canParticipate(e, st) THEN Result("ok", participating(e, st, r), 1)
  ELSE Result("ok", notParticipating(e, st), 0)

(* segment() that returns for a user already segmented before it looks at *)
(* the expiry                                                             *)
segment_ParticipatingBeforeExpiry(e, st, av, t, r) ==
  IF Len(e.variants) > 0 /\ container(av) /\ isParticipating(e, st)
  THEN Result("ok", st, 0)
  ELSE IF hasExpired(e, t)
  THEN IF container(av)
       THEN Result("expired", clearVariant(e, st), 0)
       ELSE Result("storage-unavailable", st, 0)
  ELSE IF Len(e.variants) <= 0 THEN Result("no-variants", st, 0)
  ELSE IF ~container(av) THEN Result("storage-unavailable", st, 0)
  ELSE IF canParticipate(e, st) THEN Result("ok", participating(e, st, r), 1)
  ELSE Result("ok", notParticipating(e, st), 0)

(* segment() with the no-variants check before the expiry check *)
segment_VariantsBeforeExpiry(e, st, av, t, r) ==
  IF Len(e.variants) <= 0 THEN Result("no-variants", st, 0)
  ELSE IF hasExpired(e, t)
  THEN IF container(av)
       THEN Result("expired", clearVariant(e, st), 0)
       ELSE Result("storage-unavailable", st, 0)
  ELSE IF ~container(av) THEN Result("storage-unavailable", st, 0)
  ELSE IF isParticipating(e, st) THEN Result("ok", st, 0)
  ELSE IF canParticipate(e, st) THEN Result("ok", participating(e, st, r), 1)
  ELSE Result("ok", notParticipating(e, st), 0)

(* segment() that draws before it looks at the user's eligibility *)
segment_DrawsBeforeEligibility(e, st, av, t, r) ==
  IF hasExpired(e, t)
  THEN IF container(av)
       THEN Result("expired", clearVariant(e, st), 0)
       ELSE Result("storage-unavailable", st, 0)
  ELSE IF Len(e.variants) <= 0 THEN Result("no-variants", st, 0)
  ELSE IF ~container(av) THEN Result("storage-unavailable", st, 0)
  ELSE IF isParticipating(e, st) THEN Result("ok", st, 0)
  ELSE IF canParticipate(e, st) THEN Result("ok", participating(e, st, r), 1)
  ELSE Result("ok", notParticipating(e, st), 1)

(* segment() *)
segment(e, st, av, t, r) ==
  IF hasExpired(e, t)
  THEN IF container(av)
       THEN Result("expired", clearVariant(e, st), 0)
       ELSE Result("storage-unavailable", st, 0)
  ELSE IF Len(e.variants) <= 0 THEN Result("no-variants", st, 0)
  ELSE IF ~container(av) THEN Result("storage-unavailable", st, 0)
  ELSE IF isParticipating(e, st) THEN Result("ok", st, 0)
  ELSE IF canParticipate(e, st) THEN Result("ok", participating(e, st, r), 1)
  ELSE Result("ok", notParticipating(e, st), 0)

----------------------------------------------------------------------------
(* Handlers and actions: what a call invoked, in order *)

HandlerCall(event, cb, arg) ==
  [kind |-> "handler", event |-> event, name |-> cb, index |-> 0, arg |-> arg]
ActionCall(i, variant) ==
  [kind |-> "action", event |-> "", name |-> variant.id, index |-> i,
   arg |-> UndefinedValue]

Throws(cb) == cb = "hThrow"

RECURSIVE TriggerFrom(_, _, _, _)
TriggerFrom(callbacks, i, event, variant) ==
  IF i > Len(callbacks) THEN [log |-> <<>>, threw |-> FALSE]
  ELSE IF Throws(callbacks[i])
       THEN [log |-> <<HandlerCall(event, callbacks[i], variant)>>, threw |-> TRUE]
       ELSE LET rest == TriggerFrom(callbacks, i + 1, event, variant)
            IN  [log |-> <<HandlerCall(event, callbacks[i], variant)>> \o rest.log,
                 threw |-> rest.threw]

(* trigger() that calls the handlers without the variant *)
trigger_DropsArgument(e, event, variant) ==
  TriggerFrom(e.handlers[event], 1, event, UndefinedValue)

RECURSIVE Reversed(_)
Reversed(s) == IF Len(s) = 0 THEN <<>> ELSE Append(Reversed(Tail(s)), Head(s))

(* trigger() that walks the handlers from the last registered to the first *)
trigger_Reversed(e, event, variant) ==
  TriggerFrom(Reversed(e.handlers[event]), 1, event, variant)

(* trigger() that catches what a handler throws and goes on *)
trigger_Isolated(e, event, variant) ==
  [log |-> [k \in 1..Len(e.handlers[event]) |->
              HandlerCall(event, e.handlers[event][k], variant)],
   threw |-> FALSE]

(* trigger(event, variant): call the handlers of the event in series; a  *)
(* throwing handler ends the series.  [log, threw]                        *)
trigger(e, event, variant) == TriggerFrom(e.handlers[event], 1, event, variant)

(* chosenVariant.id of a parsed assignment *)
Field(obj, f) == IF f \in DOMAIN obj THEN <<obj[f]>> ELSE UndefinedValue

RECURSIVE StartFrom(_, _, _)
StartFrom(e, i, chosenVariant) ==
  IF i > Len(e.variants) THEN [outcome |-> "ok", log |-> <<>>]
  ELSE IF chosenVariant = UndefinedValue
       THEN [outcome |-> "type-error", log |-> <<>>]
  ELSE IF <<e.variants[i].id>> = Field(chosenVariant[1], "id")
       THEN LET fired == trigger(e, "start", chosenVariant)
            IN  IF fired.threw
                THEN [outcome |-> "handler-error", log |-> fired.log]
                ELSE LET rest == StartFrom(e, i + 1, chosenVariant)
                     IN  [outcome |-> rest.outcome,
                          log |-> fired.log \o <<ActionCall(i, e.variants[i])>>
                                  \o rest.log]
       ELSE StartFrom(e, i + 1, chosenVariant)

RECURSIVE StartFrom_ActionFirst(_, _, _)
StartFrom_ActionFirst(e, i, chosenVariant) ==
  IF i > Len(e.variants) THEN [outcome |-> "ok", log |-> <<>>]
  ELSE IF chosenVariant = UndefinedValue
       THEN [outcome |-> "type-error", log |-> <<>>]
  ELSE IF <<e.variants[i].id>> = Field(chosenVariant[1], "id")
       THEN LET fired == trigger(e, "start", chosenVariant)
            IN  IF fired.threw
                THEN [outcome |-> "handler-error",
                      log |-> <<ActionCall(i, e.variants[i])>> \o fired.log]
                ELSE LET rest == StartFrom_ActionFirst(e, i + 1, chosenVariant)
                     IN  [outcome |-> rest.outcome,
                          log |-> <<ActionCall(i, e.variants[i])>> \o fired.log
                                  \o rest.log]
       ELSE StartFrom_ActionFirst(e, i + 1, chosenVariant)

(* start() that runs the variant's action before the 'start' handlers *)
start_ActionBeforeHandlers(e, st, av) ==
  IF ~container(av) THEN [outcome |-> "storage-unavailable", log |-> <<>>]
  ELSE StartFrom_ActionFirst(e, 1, getVariant(e, st))

RECURSIVE StartFrom_FirstOnly(_, _, _)
StartFrom_FirstOnly(e, i, chosenVariant) ==
  IF i > Len(e.variants) THEN [outcome |-> "ok", log |-> <<>>]
  ELSE IF chosenVariant = UndefinedValue
       THEN [outcome |-> "type-error", log |-> <<>>]
  ELSE IF <<e.variants[i].id>> = Field(chosenVariant[1], "id")
       THEN LET fired == trigger(e, "start", chosenVariant)
            IN  IF fired.threw
                THEN [outcome |-> "handler-error", log |-> fired.log]
                ELSE [outcome |-> "ok",
                      log |-> fired.log \o <<ActionCall(i, e.variants[i])>>]
       ELSE StartFrom_FirstOnly(e, i + 1, chosenVariant)

(* start() that leaves the loop after the first matching variant *)
start_FirstMatchOnly(e, st, av) ==
  IF ~container(av) THEN [outcome |-> "storage-unavailable", log |-> <<>>]
  ELSE StartFrom_FirstOnly(e, 1, getVariant(e, st))

(* start() that does nothing once the experiment has converted *)
start_NotAfterComplete(e, st, av) ==
  IF e.hasConverted THEN [outcome |-> "ok", log |-> <<>>]
  ELSE IF ~container(av) THEN [outcome |-> "storage-unavailable", log |-> <<>>]
  ELSE StartFrom(e, 1, getVariant(e, st))

(* start(): [outcome, log] *)
start(e, st, av) ==
  IF ~container(av) THEN [outcome |-> "storage-unavailable", log |-> <<>>]
  ELSE StartFrom(e, 1, getVariant(e, st))

(* complete() without the hasConverted check *)
complete_NoConvertedCheck(e, st, av) ==
  IF ~container(av)
  THEN [outcome |-> "storage-unavailable", hasConverted |-> e.hasConverted, log |-> <<>>]
  ELSE LET chosenVariant == getVariant(e, st)
           fired == trigger(e, "complete", chosenVariant)
       IN  [outcome |-> IF fired.threw THEN "handler-error" ELSE "ok",
            hasConverted |-> TRUE, log |-> fired.log]

(* complete() that throws when the user has no Assignment *)
complete_RequiresAssignment(e, st, av) ==
  IF e.hasConverted
  THEN [outcome |-> "already-complete", hasConverted |-> e.hasConverted, log |-> <<>>]
  ELSE IF ~container(av)
  THEN [outcome |-> "storage-unavailable", hasConverted |-> e.hasConverted, log |-> <<>>]
  ELSE LET chosenVariant == getVariant(e, st)
           fired == trigger(e, "complete", chosenVariant)
       IN  IF chosenVariant = UndefinedValue
           THEN [outcome |-> "type-error", hasConverted |-> e.hasConverted, log |-> <<>>]
           ELSE [outcome |-> IF fired.threw THEN "handler-error" ELSE "ok",
                 hasConverted |-> TRUE, log |-> fired.log]

(* complete() that sets hasConverted before it reads the store *)
complete_ConvertsBeforeStore(e, st, av) ==
  IF e.hasConverted
  THEN [outcome |-> "already-complete", hasConverted |-> e.hasConverted, log |-> <<>>]
  ELSE IF ~container(av)
  THEN [outcome |-> "storage-unavailable", hasConverted |-> TRUE, log |-> <<>>]
  ELSE LET chosenVariant == getVariant(e, st)
           fired == trigger(e, "complete", chosenVariant)
       IN  [outcome |-> IF fired.threw THEN "handler-error" ELSE "ok",
            hasConverted |-> TRUE, log |-> fired.log]

(* complete() that takes hasConverted back when a handler throws *)
complete_RollsBack(e, st, av) ==
  IF e.hasConverted
  THEN [outcome |-> "already-complete", hasConverted |-> e.hasConverted, log |-> <<>>]
  ELSE IF ~container(av)
  THEN [outcome |-> "storage-unavailable", hasConverted |-> e.hasConverted, log |-> <<>>]
  ELSE LET chosenVariant == getVariant(e, st)
           fired == trigger(e, "complete", chosenVariant)
       IN  [outcome |-> IF fired.threw THEN "handler-error" ELSE "ok",
            hasConverted |-> ~fired.threw, log |-> fired.log]

(* complete(): [outcome, hasConverted, log] *)
complete(e, st, av) ==
  IF e.hasConverted
  THEN [outcome |-> "already-complete", hasConverted |-> e.hasConverted, log |-> <<>>]
  ELSE IF ~container(av)
  THEN [outcome |-> "storage-unavailable", hasConverted |-> e.hasConverted, log |-> <<>>]
  ELSE LET chosenVariant == getVariant(e, st)
           fired == trigger(e, "complete", chosenVariant)
       IN  [outcome |-> IF fired.threw THEN "handler-error" ELSE "ok",
            hasConverted |-> TRUE, log |-> fired.log]

----------------------------------------------------------------------------
(* Arguments as JavaScript values: [type, value] *)

StringValue(s) == [type |-> "string", value |-> s]
UndefinedArgument == [type |-> "undefined", value |-> ""]
NumberArgument == [type |-> "number", value |-> "42"]
InvalidNames == {UndefinedArgument, NumberArgument, StringValue("undefined")}

(* the check of the constructor, addVariant and on:                       *)
(* name === 'undefined' || typeof name !== 'string' throws                *)
IsRejected(name) == name = StringValue("undefined") \/ name.type # "string"

----------------------------------------------------------------------------
(* State *)

NoHandlers == [ev \in Events |-> <<>>]

NoInstance ==
  [constructed |-> FALSE, id |-> "", sampleSize |-> DefaultSampleSize,
   expiry |-> UndefinedValue, hasConverted |-> FALSE, variants |-> <<>>,
   handlers |-> NoHandlers]

(* What the last call did: the operation, how it ended, the values it     *)
(* drew from options.random(), the handlers and actions it invoked, and   *)
(* the item stored for the experiment before the call                     *)
Called(op, outcome, drawn, log, prior) ==
  [op |-> op, outcome |-> outcome, drawn |-> drawn, log |-> log, prior |-> prior]

(* The draws a call consumed, given how many and the source's next value *)
Drawn(draws, r) == IF draws > 0 THEN <<r>> ELSE <<>>

Prior == IF exp.constructed THEN getItem(store, experimentKey(exp.id)) ELSE Null

(* Two browser tabs run the same script against the one store:           *)
(*   new Conical('test', '', { sampleSize: 0.2 }), addVariant A (0.3) and  *)
(*   B (0.7), segment(), start()                                          *)
(* and JavaScript may switch from one tab to the other between any two    *)
(* accesses of localStorage.  A tab keeps where it is in the script (pc), *)
(* what hasId() and isParticipating() answered, and the values it went    *)
(* on: the identity assignId() returned, the identity canParticipate()    *)
(* compared, the variant id it stored or found and the one start() read.  *)
Tabs == {"tab1", "tab2"}

NoTab ==
  [pc |-> "hasId", foundId |-> <<>>, id |-> <<>>, foundVariant |-> <<>>,
   basis |-> <<>>, variant |-> <<>>, ran |-> <<>>]

Init ==
  /\ store = [k \in Keys |-> Null]
  /\ now = 0
  /\ exp = NoInstance
  /\ last = Called("none", "ok", <<>>, <<>>, Null)
  /\ tabs = [t \in Tabs |-> NoTab]

(* The values options.random() may return where a call consults it; one   *)
(* value stands for all where the call does not                           *)
DrawsIf(consulted, draws) == IF consulted THEN draws ELSE {0}

(* a constructor that takes hasConverted over from the instance before *)
Construct_KeepsConverted(id, sampleSize, expiry, av, draws) ==
  IF IsRejected(id)
  THEN /\ last' = Called("construct", "validation", <<>>, <<>>, Null)
       /\ UNCHANGED <<store, now, exp, tabs>>
  ELSE IF ~container(av)
  THEN /\ last' = Called("construct", "storage-unavailable", <<>>, <<>>, Null)
       /\ UNCHANGED <<store, now, exp, tabs>>
  ELSE \E r \in DrawsIf(~hasId(store), draws) :
         LET assigned == assignId(store, r)
         IN  /\ store' = assigned.store
             /\ exp' = [constructed |-> TRUE, id |-> id.value,
                        sampleSize |-> IF sampleSize = UndefinedValue
                                       THEN DefaultSampleSize ELSE sampleSize[1],
                        expiry |-> expiry, hasConverted |-> exp.hasConverted,
                        variants |-> <<>>, handlers |-> NoHandlers]
             /\ last' = Called("construct", "ok", Drawn(assigned.draws, r), <<>>,
                               getItem(store, experimentKey(id.value)))
             /\ UNCHANGED <<now, tabs>>

(* new Conical(id, description, options), with localStorage defined (av)  *)
(* or not and the values draws on offer from options.random()             *)
Construct(id, sampleSize, expiry, av, draws) ==
  IF IsRejected(id)
  THEN /\ last' = Called("construct", "validation", <<>>, <<>>, Null)
       /\ UNCHANGED <<store, now, exp, tabs>>
  ELSE IF ~container(av)
  THEN /\ last' = Called("construct", "storage-unavailable", <<>>, <<>>, Null)
       /\ UNCHANGED <<store, now, exp, tabs>>
  ELSE \E r \in DrawsIf(~hasId(store), draws) :
         LET assigned == assignId(store, r)
         IN  /\ store' = assigned.store
             /\ exp' = [constructed |-> TRUE, id |-> id.value,
                        sampleSize |-> IF sampleSize = UndefinedValue
                                       THEN DefaultSampleSize ELSE sampleSize[1],
                        expiry |-> expiry, hasConverted |-> FALSE,
                        variants |-> <<>>, handlers |-> NoHandlers]
             /\ last' = Called("construct", "ok", Drawn(assigned.draws, r), <<>>,
                               getItem(store, experimentKey(id.value)))
             /\ UNCHANGED <<now, tabs>>

(* addVariant() that replaces an entry with the same id *)
AddVariant_ReplacesSameId(id, weight) ==
  /\ exp.constructed
  /\ IF IsRejected(id)
     THEN /\ last' = Called("addVariant", "validation", <<>>, <<>>, Prior)
          /\ UNCHANGED exp
     ELSE /\ Len(exp.variants) < MaxVariants
          /\ exp' = [exp EXCEPT !.variants =
                       Append(SelectSeq(@, LAMBDA v : v.id # id.value),
                              [id |-> id.value,
                               weight |-> IF weight = UndefinedValue \/ weight[1] = 0
                                          THEN DefaultWeight ELSE weight[1]])]
          /\ last' = Called("addVariant", "ok", <<>>, <<>>, Prior)
  /\ UNCHANGED <<store, now, tabs>>

(* addVariant() without the check of the id *)
AddVariant_NoCheck(id, weight) ==
  /\ exp.constructed
  /\ Len(exp.variants) < MaxVariants
  /\ exp' = [exp EXCEPT !.variants =
               Append(@, [id |-> id.value,
                          weight |-> IF weight = UndefinedValue \/ weight[1] = 0
                                     THEN DefaultWeight ELSE weight[1]])]
  /\ last' = Called("addVariant", "ok", <<>>, <<>>, Prior)
  /\ UNCHANGED <<store, now, tabs>>

(* addVariant(id, options, cb) *)
AddVariant(id, weight) ==
  /\ exp.constructed
  /\ IF IsRejected(id)
     THEN /\ last' = Called("addVariant", "validation", <<>>, <<>>, Prior)
          /\ UNCHANGED exp
     ELSE /\ Len(exp.variants) < MaxVariants
          /\ exp' = [exp EXCEPT !.variants =
                       Append(@, [id |-> id.value,
                                  weight |-> IF weight = UndefinedValue \/ weight[1] = 0
                                             THEN DefaultWeight ELSE weight[1]])]
          /\ last' = Called("addVariant", "ok", <<>>, <<>>, Prior)
  /\ UNCHANGED <<store, now, tabs>>

HandlerCount == Len(exp.handlers["start"]) + Len(exp.handlers["complete"])

(* on(event, cb) *)
On(event, cb) ==
  /\ exp.constructed
  /\ IF IsRejected(event)
     THEN /\ last' = Called("on", "validation", <<>>, <<>>, Prior)
          /\ UNCHANGED exp
     ELSE /\ HandlerCount < MaxHandlers
          /\ exp' = [exp EXCEPT !.handlers[event.value] = Append(@, cb)]
          /\ last' = Called("on", "ok", <<>>, <<>>, Prior)
  /\ UNCHANGED <<store, now, tabs>>

(* segment() *)
Segment(av, draws) ==
  /\ exp.constructed
  /\ \E r \in DrawsIf(segment(exp, store, av, now, 0).draws > 0, draws) :
       LET res == segment(exp, store, av, now, r)
       IN  /\ store' = res.store
           /\ last' = Called("segment", res.outcome, Drawn(res.draws, r), <<>>, Prior)
  /\ UNCHANGED <<now, exp, tabs>>

(* start() *)
Start(av) ==
  /\ exp.constructed
  /\ LET res == start(exp, store, av)
     IN  last' = Called("start", res.outcome, <<>>, res.log, Prior)
  /\ UNCHANGED <<store, now, exp, tabs>>

(* complete() *)
Complete(av) ==
  /\ exp.constructed
  /\ LET res == complete(exp, store, av)
     IN  /\ exp' = [exp EXCEPT !.hasConverted = res.hasConverted]
         /\ last' = Called("complete", res.outcome, <<>>, res.log, Prior)
  /\ UNCHANGED <<store, now, tabs>>

(* hasExpired(): the call reads the clock and the options, nothing else *)
HasExpired ==
  /\ exp.constructed
  /\ last' = Called("hasExpired", IF hasExpired(exp, now) THEN "true" ELSE "false",
                    <<>>, <<>>, Prior)
  /\ UNCHANGED <<store, now, exp, tabs>>

(* The clock advances *)
Tick ==
  /\ now < MaxTime
  /\ now' = now + 1
  /\ UNCHANGED <<store, exp, last, tabs>>

----------------------------------------------------------------------------
(* The script of a tab, one access of the store per step *)

(* The instance of a tab once its script has added the two variants; the  *)
(* constructor and addVariant() keep it in the tab's own memory          *)
TabInstance ==
  [constructed |-> TRUE, id |-> "test", sampleSize |-> Unit \div 5,
   expiry |-> UndefinedValue, hasConverted |-> FALSE,
   variants |-> <<[id |-> "variant-A", weight |-> 3 * (Unit \div 10)],
                  [id |-> "variant-B", weight |-> 7 * (Unit \div 10)]>>,
   handlers |-> NoHandlers]

(* options.random() of a tab: for the identity, one value inside the      *)
(* sample and one outside; for the variant, one value for each variant    *)
TabIdDraws == {Unit \div 10, 347020}
TabVariantDraws == {Unit \div 10, 347020}

(* assignId(): the read of hasId() *)
TabHasId(t) ==
  /\ tabs[t].pc = "hasId"
  /\ tabs' = [tabs EXCEPT ![t].foundId = <<hasId(store)>>,
                          ![t].pc = IF hasId(store) THEN "getId" ELSE "setId"]
  /\ UNCHANGED <<store, now, exp, last>>

(* assignId(): the read of getId() after hasId() answered true *)
TabGetId(t) ==
  /\ tabs[t].pc = "getId"
  /\ tabs' = [tabs EXCEPT ![t].id = getId(store), ![t].pc = "isParticipating"]
  /\ UNCHANGED <<store, now, exp, last>>

(* a setId() that leaves an identity already in the store alone *)
TabSetId_KeepsExisting(t, r) ==
  /\ tabs[t].pc = "setId"
  /\ store' = IF hasId(store) THEN store ELSE setId(store, RandomId(r))
  /\ tabs' = [tabs EXCEPT ![t].id = <<RandomId(r)>>, ![t].pc = "isParticipating"]
  /\ UNCHANGED <<now, exp, last>>

(* assignId(): generateRandomId() draws and writes with setId() *)
TabSetId(t, r) ==
  /\ tabs[t].pc = "setId"
  /\ store' = setId(store, RandomId(r))
  /\ tabs' = [tabs EXCEPT ![t].id = <<RandomId(r)>>, ![t].pc = "isParticipating"]
  /\ UNCHANGED <<now, exp, last>>

(* segment(): the read of isParticipating(); the instance has variants    *)
(* and no expiry, so the two checks before it pass                        *)
TabIsParticipating(t) ==
  /\ tabs[t].pc = "isParticipating"
  /\ LET found == getVariant(TabInstance, store)
     IN  tabs' = [tabs EXCEPT
                    ![t].foundVariant = <<isParticipating(TabInstance, store)>>,
                    ![t].variant = IF isParticipating(TabInstance, store)
                                   THEN Field(found[1], "id") ELSE @,
                    ![t].pc = IF isParticipating(TabInstance, store)
                              THEN "start" ELSE "canParticipate"]
  /\ UNCHANGED <<store, now, exp, last>>

(* segment(): the read of canParticipate() *)
TabCanParticipate(t) ==
  /\ tabs[t].pc = "canParticipate"
  /\ tabs' = [tabs EXCEPT ![t].basis = getId(store),
                          ![t].pc = IF canParticipate(TabInstance, store)
                                    THEN "participating" ELSE "notParticipating"]
  /\ UNCHANGED <<store, now, exp, last>>

(* segment(): participating() draws and writes with setVariant() *)
TabParticipating(t, r) ==
  /\ tabs[t].pc = "participating"
  /\ store' = participating(TabInstance, store, r)
  /\ tabs' = [tabs EXCEPT
                ![t].variant = <<allocateVariant(TabInstance.variants, r).id>>,
                ![t].pc = "start"]
  /\ UNCHANGED <<now, exp, last>>

(* segment(): notParticipating() writes with setVariant() *)
TabNotParticipating(t) ==
  /\ tabs[t].pc = "notParticipating"
  /\ store' = notParticipating(TabInstance, store)
  /\ tabs' = [tabs EXCEPT ![t].variant = <<NotParticipatingId>>, ![t].pc = "start"]
  /\ UNCHANGED <<now, exp, last>>

(* start(): the read of getVariant(); the actions it then runs are those  *)
(* of the id it read                                                      *)
TabStart(t) ==
  /\ tabs[t].pc = "start"
  /\ tabs' = [tabs EXCEPT
                ![t].ran = LET chosenVariant == getVariant(TabInstance, store)
                           IN  IF chosenVariant = UndefinedValue THEN UndefinedValue
                               ELSE Field(chosenVariant[1], "id"),
                ![t].pc = "done"]
  /\ UNCHANGED <<store, now, exp, last>>

----------------------------------------------------------------------------
(* Spec: segmentation of one experiment over constructions, variant lists, *)
(* sample sizes, expiry and draws                                          *)

Strings(S) == {StringValue(x) : x \in S}

(* A call that fails before it reads its other arguments is taken with    *)
(* one value of them: the state after it is the same for every value.     *)
ConstructRejected ==
  \E id \in InvalidNames : Construct(id, UndefinedValue, UndefinedValue, TRUE, Draws)

ConstructUnavailable ==
  \E id \in Strings({"test"}) : Construct(id, UndefinedValue, UndefinedValue, FALSE, Draws)

AddVariantRejected ==
  \E id \in InvalidNames : AddVariant(id, UndefinedValue)

Next ==
  \/ \E id \in Strings({"test"}), sampleSize \in SampleSizeOptions,
        expiry \in ExpiryOptions :
       Construct(id, sampleSize, expiry, TRUE, Draws)
  \/ ConstructRejected
  \/ ConstructUnavailable
  \/ \E id \in Strings(VariantIds), weight \in GivenWeights :
       AddVariant(id, weight)
  \/ AddVariantRejected
  \/ \E av \in BOOLEAN : Segment(av, Draws)
  \/ Tick

Spec == Init /\ [][Next]_vars

----------------------------------------------------------------------------
(* SpecLifecycle: every operation of one experiment without expiry, with  *)
(* handlers, default weights and the sample sizes 1 and 0                 *)

LifecycleSampleSizes == {<<>>, <<0>>}

OnRejected == \E event \in InvalidNames : On(event, "h1")

NextLifecycle ==
  \/ \E id \in Strings({"test"}), sampleSize \in LifecycleSampleSizes :
       Construct(id, sampleSize, UndefinedValue, TRUE, {347020})
  \/ \E id \in Strings(VariantIds) : AddVariant(id, UndefinedValue)
  \/ \E event \in Strings(Events), cb \in Callbacks : On(event, cb)
  \/ OnRejected
  \/ \E av \in BOOLEAN : Segment(av, LifecycleDraws)
  \/ \E av \in BOOLEAN : Start(av)
  \/ \E av \in BOOLEAN : Complete(av)

SpecLifecycle == Init /\ [][NextLifecycle]_vars

----------------------------------------------------------------------------
(* SpecSentinel: variants that carry the ids segment() stores for users    *)
(* without a variant, next to an ordinary one; weight 0.3 under the draw   *)
(* 0.34702 leaves a single variant unchosen                                *)

SentinelVariantIds == {"variant-A", NotParticipatingId, NoChosenVariantId}

NextSentinel ==
  \/ \E id \in Strings({"test"}), sampleSize \in LifecycleSampleSizes :
       Construct(id, sampleSize, UndefinedValue, TRUE, {347020})
  \/ \E id \in Strings(SentinelVariantIds) :
       AddVariant(id, <<3 * (Unit \div 10)>>)
  \/ On(StringValue("start"), "h1")
  \/ Segment(TRUE, {347020})
  \/ Start(TRUE)

SpecSentinel == Init /\ [][NextSentinel]_vars

----------------------------------------------------------------------------
(* SpecHandlers: the events of one experiment with one variant id (which   *)
(* may be registered twice) and three distinguishable handlers             *)

HandlerCallbacks == {"h1", "h2", "hThrow"}

NextHandlers ==
  \/ Construct(StringValue("test"), UndefinedValue, UndefinedValue, TRUE, {347020})
  \/ AddVariant(StringValue("variant-A"), UndefinedValue)
  \/ \E event \in Strings(Events), cb \in HandlerCallbacks : On(event, cb)
  \/ Segment(TRUE, {347020})
  \/ Start(TRUE)
  \/ Complete(TRUE)

SpecHandlers == Init /\ [][NextHandlers]_vars

----------------------------------------------------------------------------
(* SpecFailures: calls with valid and invalid names, with and without      *)
(* localStorage, over the draws 0, 0.34702 and the largest below 1         *)

FailureDraws == {0, 347020, Unit - 1}
ConstructNames == Strings(ExpIds) \cup InvalidNames

NextFailures ==
  \/ \E id \in ConstructNames, av \in BOOLEAN :
       Construct(id, UndefinedValue, UndefinedValue, av, FailureDraws)
  \/ \E id \in Strings({"variant-A"}) \cup InvalidNames :
       AddVariant(id, UndefinedValue)
  \/ \E event \in Strings(Events) \cup InvalidNames : On(event, "h1")
  \/ \E av \in BOOLEAN : Segment(av, {347020})
  \/ \E av \in BOOLEAN : Start(av)
  \/ \E av \in BOOLEAN : Complete(av)

SpecFailures == Init /\ [][NextFailures]_vars

----------------------------------------------------------------------------
(* SpecExpiry: one experiment with an expiry at time 0 or 1 or none, as    *)
(* the clock advances; one variant id, every user eligible                 *)

ExpiryTimes == {<<>>, <<0>>, <<1>>}

NextExpiry ==
  \/ \E expiry \in ExpiryTimes :
       Construct(StringValue("test"), UndefinedValue, expiry, TRUE, {347020})
  \/ AddVariant(StringValue("variant-A"), UndefinedValue)
  \/ \E av \in BOOLEAN : Segment(av, {347020})
  \/ HasExpired
  \/ Tick

SpecExpiry == Init /\ [][NextExpiry]_vars

----------------------------------------------------------------------------
(* SpecShared: two experiments, 'test' and 'other', built in turn on the   *)
(* same store, with and without expiry; draws 0.000009 and 0.34702 for the *)
(* identity                                                                *)

SharedExpIds == {"test"} \cup OtherExpIds

NextShared ==
  \/ \E id \in Strings(SharedExpIds), expiry \in ExpiryOptions :
       Construct(id, UndefinedValue, expiry, TRUE, {9, 347020})
  \/ AddVariant(StringValue("variant-A"), UndefinedValue)
  \/ Segment(TRUE, {347020})
  \/ Start(TRUE)
  \/ Complete(TRUE)
  \/ Tick

SpecShared == Init /\ [][NextShared]_vars

----------------------------------------------------------------------------
(* SpecWeights: variants registered without a weight, with the weight 0    *)
(* and with the weight 0.3, segmented under the draw 0.34702               *)

WeightOptions == DefaultedWeights \cup {<<3 * (Unit \div 10)>>}

NextWeights ==
  \/ Construct(StringValue("test"), UndefinedValue, UndefinedValue, TRUE, {347020})
  \/ \E id \in Strings(VariantIds), weight \in WeightOptions :
       AddVariant(id, weight)
  \/ Segment(TRUE, {347020})

SpecWeights == Init /\ [][NextWeights]_vars

----------------------------------------------------------------------------
(* SpecTabs: the two tabs, interleaved at every access of the store *)

NextTabs ==
  \E t \in Tabs :
    \/ TabHasId(t)
    \/ TabGetId(t)
    \/ \E r \in TabIdDraws : TabSetId(t, r)
    \/ TabIsParticipating(t)
    \/ TabCanParticipate(t)
    \/ \E r \in TabVariantDraws : TabParticipating(t, r)
    \/ TabNotParticipating(t)
    \/ TabStart(t)

SpecTabs == Init /\ [][NextTabs]_vars

----------------------------------------------------------------------------
(* SpecStart: start() at every point of the life of one experiment: before *)
(* and after complete(), before and after the expiry, with handlers that   *)
(* return and that throw                                                   *)

NextStart ==
  \/ \E expiry \in ExpiryOptions :
       Construct(StringValue("test"), UndefinedValue, expiry, TRUE, {347020})
  \/ \E id \in Strings(VariantIds) : AddVariant(id, UndefinedValue)
  \/ \E cb \in Callbacks : On(StringValue("start"), cb)
  \/ Segment(TRUE, LifecycleDraws)
  \/ \E av \in BOOLEAN : Start(av)
  \/ Complete(TRUE)
  \/ Tick

SpecStart == Init /\ [][NextStart]_vars

----------------------------------------------------------------------------
(* SpecDraws: every operation of one experiment, with the draws 0 (which   *)
(* yields the identity 0) and 0.34702, sample sizes 1 and 0, with and      *)
(* without expiry and localStorage                                         *)

DrawsOnOffer == {0, 347020}

DrawsConstruct ==
  \E sampleSize \in LifecycleSampleSizes, expiry \in ExpiryOptions, av \in BOOLEAN :
    Construct(StringValue("test"), sampleSize, expiry, av, DrawsOnOffer)

DrawsSegment == \E av \in BOOLEAN : Segment(av, DrawsOnOffer)

NextDraws ==
  \/ DrawsConstruct
  \/ AddVariant(StringValue("variant-A"), UndefinedValue)
  \/ On(StringValue("start"), "h1")
  \/ DrawsSegment
  \/ Start(TRUE)
  \/ Complete(TRUE)
  \/ HasExpired
  \/ Tick

SpecDraws == Init /\ [][NextDraws]_vars

----------------------------------------------------------------------------
(* SpecSingle: one instance, constructed once on the empty store, with     *)
(* variants of weight 0.3 under any id addVariant() accepts                *)

ConstructOnce ==
  /\ ~exp.constructed
  /\ \E sampleSize \in LifecycleSampleSizes, expiry \in ExpiryOptions :
       Construct(StringValue("test"), sampleSize, expiry, TRUE, DrawsOnOffer)

NextSingle ==
  \/ ConstructOnce
  \/ \E id \in Strings(SentinelVariantIds) :
       AddVariant(id, <<3 * (Unit \div 10)>>)
  \/ Segment(TRUE, LifecycleDraws)
  \/ Tick

SpecSingle == Init /\ [][NextSingle]_vars

----------------------------------------------------------------------------
(* SpecSecond: an instance of the experiment completes, then the page      *)
(* constructs the experiment again on the same store.  The later instances *)
(* are given the sample size 0.2, which tells them from the first.         *)

SecondSampleSize == Unit \div 5

FirstConstruct ==
  /\ ~exp.constructed
  /\ Construct(StringValue("test"), UndefinedValue, UndefinedValue, TRUE, {347020})

SecondConstruct ==
  /\ exp.constructed
  /\ exp.hasConverted
  /\ Construct(StringValue("test"), <<SecondSampleSize>>, UndefinedValue, TRUE, {347020})

NextSecond ==
  \/ FirstConstruct
  \/ SecondConstruct
  \/ AddVariant(StringValue("variant-A"), UndefinedValue)
  \/ \E cb \in Callbacks : On(StringValue("complete"), cb)
  \/ Segment(TRUE, {347020})
  \/ \E av \in BOOLEAN : Complete(av)

SpecSecond == Init /\ [][NextSecond]_vars

----------------------------------------------------------------------------
(* The prototype-based Experiment (src/unnamed/part_001, part_002): its    *)
(* constructor, addVariant() and segment().  An instance is the record of  *)
(* the class plus options.variant, with options.sampleSize and the         *)
(* variants' options.weight kept as given; localStorage is guarded by      *)
(* typeof Storage, the input av.                                           *)

Experiment_getId(st) == parseInt(getItem(st, uidKey))
Experiment_hasId(st) == TruthyNumber(Experiment_getId(st))
Experiment_setId(st, id) == setItem(st, uidKey, NumberToString(id))

(* allocateId(): [store, draws] *)
Experiment_allocateId(st, r) ==
  IF Experiment_hasId(st) THEN [store |-> st, draws |-> 0]
  ELSE [store |-> Experiment_setId(st, RandomId(r)), draws |-> 1]

(* hasVariant(variant): some registered variant carries variant.id *)
Experiment_hasVariant(e, variant) ==
  \E i \in 1..Len(e.variants) : e.variants[i].id = variant.id

Experiment_setVariant(e, st, variant) ==
  setItem(st, experimentKey(e.id),
          JSONstringify([experimentId |-> e.id, variantId |-> variant.id]))

Experiment_getVariant(e, st) ==
  LET variant == getItem(st, experimentKey(e.id))
  IN  IF variant # Null THEN <<JSONparse(variant)>> ELSE Null

Experiment_hasExpired(e, t) == e.expiry # UndefinedValue /\ t > e.expiry[1]

(* canParticipate(): getId() < max * (sampleSize || 1) *)
Experiment_canParticipate(e, st) ==
  LET id == Experiment_getId(st)
      sampleSize == IF e.sampleSize = UndefinedValue \/ e.sampleSize[1] = 0
                    THEN Unit ELSE e.sampleSize[1]
  IN  id # NaN /\ id[1] * Scale < sampleSize

RECURSIVE Experiment_AllocateFrom(_, _, _, _)
Experiment_AllocateFrom(variants, i, cumerlativeWeight, randomVariant) ==
  IF i > Len(variants) THEN [id |-> NoChosenVariantId]
  ELSE LET c == cumerlativeWeight +
                  (IF variants[i].weight = UndefinedValue \/ variants[i].weight[1] = 0
                   THEN DefaultWeight ELSE variants[i].weight[1])
       IN  IF c >= randomVariant THEN [id |-> variants[i].id]
           ELSE Experiment_AllocateFrom(variants, i + 1, c, randomVariant)

(* segment() of the prototype: [outcome, store, draws] *)
Experiment_segment(e, st, av, t, r) ==
  IF Experiment_hasExpired(e, t) THEN Result("expired", st, 0)
  ELSE IF Len(e.variants) <= 0 THEN Result("no-variants", st, 0)
  ELSE IF ~av THEN Result("storage-unavailable", st, 0)
  ELSE IF Experiment_getVariant(e, st) # Null THEN Result("ok", st, 0)
  ELSE IF Experiment_canParticipate(e, st)
       THEN Result("ok", Experiment_setVariant(e, st,
                           Experiment_AllocateFrom(e.variants, 1, 0, r)), 1)
       ELSE Result("ok", Experiment_setVariant(e, st, [id |-> NotParticipatingId]), 0)

(* The values options.variant takes: absent, or an object with an id *)
VariantOptions == {UndefinedValue} \cup {<<[id |-> v]>> : v \in VariantIds}

(* new Experiment(id, options) with options.sampleSize and options.variant *)
Experiment(id, sampleSize, variant, av, draws) ==
  IF IsRejected(id)
  THEN /\ last' = Called("construct", "validation", <<>>, <<>>, Null)
       /\ UNCHANGED <<store, now, exp, tabs>>
  ELSE IF ~av
  THEN /\ last' = Called("construct", "storage-unavailable", <<>>, <<>>, Null)
       /\ UNCHANGED <<store, now, exp, tabs>>
  ELSE \E r \in DrawsIf(~Experiment_hasId(store), draws) :
         LET allocated == Experiment_allocateId(store, r)
             e == [constructed |-> TRUE, id |-> id.value,
                   sampleSize |-> sampleSize,
                   expiry |-> UndefinedValue, hasConverted |-> FALSE,
                   variants |-> <<>>, handlers |-> NoHandlers,
                   variant |-> variant]
         IN  /\ exp' = e
             /\ store' = IF variant # UndefinedValue
                            /\ Experiment_hasVariant(e, variant[1])
                         THEN Experiment_setVariant(e, allocated.store, variant[1])
                         ELSE allocated.store
             /\ last' = Called("construct", "ok", Drawn(allocated.draws, r), <<>>,
                               getItem(store, experimentKey(id.value)))
             /\ UNCHANGED <<now, tabs>>

(* addVariant(id, options, _cb) of the prototype: the options are kept as *)
(* given                                                                  *)
Experiment_addVariant(id, weight) ==
  /\ exp.constructed
  /\ IF IsRejected(id)
     THEN /\ last' = Called("addVariant", "validation", <<>>, <<>>, Prior)
          /\ UNCHANGED exp
     ELSE /\ Len(exp.variants) < MaxVariants
          /\ exp' = [exp EXCEPT !.variants = Append(@, [id |-> id.value, weight |-> weight])]
          /\ last' = Called("addVariant", "ok", <<>>, <<>>, Prior)
  /\ UNCHANGED <<store, now, tabs>>

Experiment_Segment(av, draws) ==
  /\ exp.constructed
  /\ \E r \in DrawsIf(Experiment_segment(exp, store, av, now, 0).draws > 0, draws) :
       LET res == Experiment_segment(exp, store, av, now, r)
       IN  /\ store' = res.store
           /\ last' = Called("segment", res.outcome, Drawn(res.draws, r), <<>>, Prior)
  /\ UNCHANGED <<now, exp, tabs>>

(* SpecPrototype: pages that construct the experiment 'test' with or       *)
(* without options.variant, register variant-A and variant-B and segment   *)
NextPrototype ==
  \/ \E sampleSize \in {UndefinedValue, <<SecondSampleSize>>},
        variant \in VariantOptions, av \in BOOLEAN :
       Experiment(StringValue("test"), sampleSize, variant, av, LifecycleDraws)
  \/ \E id \in Strings(VariantIds), weight \in {UndefinedValue, <<3 * (Unit \div 10)>>} :
       Experiment_addVariant(id, weight)
  \/ \E av \in BOOLEAN : Experiment_Segment(av, LifecycleDraws)

SpecPrototype == Init /\ [][NextPrototype]_vars

----------------------------------------------------------------------------
(* What the store holds for the instance's experiment and user *)

ExperimentItem == getItem(store, experimentKey(exp.id))
HasAssignment == ExperimentItem # Null
AssignedId == JSONparse(ExperimentItem)["id"]
Identity == ParseDigits(getItem(store, uidKey))
SegmentedNow(outcome) == last.op = "segment" /\ last.outcome = outcome
RegisteredIds == {exp.variants[i].id : i \in 1..Len(exp.variants)}

----------------------------------------------------------------------------
(* C1: segment() is idempotent.  Whenever an Assignment is already        *)
(* persisted for the experiment id, a segment() call on a non-expired     *)
(* experiment with at least one variant leaves the store unchanged and    *)
(* consumes no random draw, whatever the sample size, the variant list    *)
(* and the draws on offer; with the store available it returns normally.  *)
C1_SegmentIdempotent ==
  [][\A av \in BOOLEAN :
       (/\ exp.constructed
        /\ HasAssignment
        /\ ~hasExpired(exp, now)
        /\ Len(exp.variants) > 0
        /\ Segment(av, Draws))
       => /\ store' = store
          /\ last'.drawn = <<>>
          /\ av => last'.outcome = "ok"]_vars

(* A second segment() returned normally on an Assignment that an earlier  *)
(* instance had written: it names a variant this instance does not have.  *)
C1_Witness ==
  /\ SegmentedNow("ok")
  /\ last.prior # Null
  /\ ExperimentItem = last.prior
  /\ AssignedId \in VariantIds \ RegisteredIds
  /\ exp.sampleSize = 0

(* C2: the first successful segment() (not expired, a variant registered, *)
(* no Assignment yet) treats the user as eligible iff                     *)
(* identity < 100000 * clamp(sampleSize, 0, 1): an ineligible user is     *)
(* assigned 'not-participating' without a draw, an eligible user gets the *)
(* outcome of one weighted draw; sampleSize 0 makes no identity eligible, *)
(* sampleSize 1 every identity.                                           *)
C2_Eligible ==
  Identity * Scale <
    (IF exp.sampleSize < 0 THEN 0
     ELSE IF exp.sampleSize > Unit THEN Unit ELSE exp.sampleSize)

C2_EligibleIffBelowSample ==
  (SegmentedNow("ok") /\ last.prior = Null) =>
    /\ HasAssignment
    /\ Identity \in 0..(max - 1)
    /\ C2_Eligible <=> AssignedId # NotParticipatingId
    /\ C2_Eligible => /\ Len(last.drawn) = 1
                      /\ AssignedId \in RegisteredIds \cup {NoChosenVariantId}
    /\ ~C2_Eligible => last.drawn = <<>>
    /\ exp.sampleSize = 0 => AssignedId = NotParticipatingId
    /\ exp.sampleSize = Unit => AssignedId # NotParticipatingId

(* identity 34702 under sampleSize 0.2 was segmented as not participating *)
C2_Witness ==
  /\ SegmentedNow("ok")
  /\ last.prior = Null
  /\ exp.sampleSize = Unit \div 5
  /\ Identity = 34702
  /\ AssignedId = NotParticipatingId

(* C3: the weighted draw of an eligible user selects the first variant in *)
(* registration order whose cumulative weight is >= the draw r, and the   *)
(* sentinel 'no-chosen-variant' exactly when the total weight is < r.     *)
C3_CumulativeWeight(i) ==
  LET RECURSIVE Sum(_)
      Sum(j) == IF j = 0 THEN 0 ELSE Sum(j - 1) + exp.variants[j].weight
  IN  Sum(i)

C3_Reaching(r) == {i \in 1..Len(exp.variants) : C3_CumulativeWeight(i) >= r}

C3_WeightedDraw ==
  (SegmentedNow("ok") /\ Len(last.drawn) = 1) =>
    LET r == last.drawn[1]
        reaching == C3_Reaching(r)
    IN  /\ HasAssignment
        /\ reaching # {} =>
             AssignedId =
               exp.variants[CHOOSE i \in reaching : \A j \in reaching : i <= j].id
        /\ AssignedId = NoChosenVariantId
             <=> C3_CumulativeWeight(Len(exp.variants)) < r

(* A(0.3) then B(0.7) with r = 0.34702 assigned B *)
C3_Witness ==
  /\ SegmentedNow("ok")
  /\ last.drawn = <<347020>>
  /\ exp.variants = <<[id |-> "variant-A", weight |-> 3 * (Unit \div 10)],
                      [id |-> "variant-B", weight |-> 7 * (Unit \div 10)]>>
  /\ AssignedId = "variant-B"

(* C4: the UserIdentity is generated at most once per store.  Once a      *)
(* UserIdentity has been persisted its value never changes, and every     *)
(* construction after that reuses it without consuming a random draw.     *)
C4_IdentityGeneratedOnce ==
  [][getItem(store, uidKey) # Null =>
       /\ getItem(store', uidKey) = getItem(store, uidKey)
       /\ \A sampleSize \in SampleSizeOptions, expiry \in ExpiryOptions :
            Construct(StringValue("test"), sampleSize, expiry, TRUE, Draws)
              => last'.drawn = <<>>]_vars

(* C5: on one Experiment instance hasConverted goes from false to true    *)
(* once and never back (only a new construction starts again from false), *)
(* complete() succeeds only from hasConverted = false, and every          *)
(* complete() call made while hasConverted is true fails with the         *)
(* already-complete error, fires no 'complete' handler and changes        *)
(* neither the instance nor the store.                                    *)
C5_ConvertsOnce ==
  [][/\ (exp.hasConverted /\ ~exp'.hasConverted)
          => (last'.op = "construct" /\ last'.outcome = "ok")
     /\ \A av \in BOOLEAN :
          (exp.constructed /\ Complete(av)) =>
            /\ exp.hasConverted =>
                 /\ last'.outcome = "already-complete"
                 /\ last'.log = <<>>
                 /\ exp' = exp
                 /\ store' = store
            /\ last'.outcome = "ok" => (~exp.hasConverted /\ exp'.hasConverted)]_vars

(* a second complete() failed although a 'complete' handler is registered *)
C5_Witness ==
  /\ last.op = "complete"
  /\ last.outcome = "already-complete"
  /\ exp.hasConverted
  /\ exp.handlers["complete"] # <<>>
  /\ last.log = <<>>

(* C6: an Assignment is persisted iff segmentation has run and the        *)
(* experiment has since been neither completed nor cleared; in particular *)
(* after segment() followed by a successful complete() hasConverted is    *)
(* true and no Assignment remains in the store.                           *)
C6_CompletedHasNoAssignment ==
  /\ (exp.constructed /\ exp.hasConverted) => ~HasAssignment
  /\ (last.op = "complete" /\ last.outcome = "ok") =>
       (exp.hasConverted /\ ~HasAssignment)

(* C7: segment() called when an expiry is configured and the current time *)
(* is past it fails with the expired error, after which no Assignment is  *)
(* persisted for the experiment; the UserIdentity, the variant list, the  *)
(* handlers and hasConverted are unchanged.                               *)
C7_ExpiredSegmentFailsExpired ==
  [][\A av \in BOOLEAN :
       (exp.constructed /\ hasExpired(exp, now) /\ Segment(av, Draws))
       => /\ last'.outcome = "expired"
          /\ getItem(store', experimentKey(exp.id)) = Null
          /\ getItem(store', uidKey) = getItem(store, uidKey)
          /\ exp' = exp]_vars

(* C7 as amended: with the store available the call fails with the        *)
(* expired error and no Assignment is persisted after it; with the store  *)
(* unavailable it fails with the storage-unavailable error and the store  *)
(* is unchanged.  In both cases identity and instance are unchanged.      *)
C7_ExpiredSegmentClears ==
  [][\A av \in BOOLEAN :
       (exp.constructed /\ hasExpired(exp, now) /\ Segment(av, Draws))
       => /\ av => /\ last'.outcome = "expired"
                   /\ getItem(store', experimentKey(exp.id)) = Null
          /\ ~av => /\ last'.outcome = "storage-unavailable"
                    /\ store' = store
          /\ last'.drawn = <<>>
          /\ getItem(store', uidKey) = getItem(store, uidKey)
          /\ exp' = exp]_vars

(* an expired segment() removed the Assignment stored before it *)
C7_Witness ==
  /\ SegmentedNow("expired")
  /\ last.prior # Null
  /\ ~HasAssignment
  /\ Len(exp.variants) > 0

(* C8: segment() on a non-expired experiment with zero registered         *)
(* variants fails with the no-variants error, consumes no random draw and *)
(* writes nothing to the store.                                           *)
C8_NoVariantsFails ==
  [][\A av \in BOOLEAN :
       (/\ exp.constructed
        /\ ~hasExpired(exp, now)
        /\ Len(exp.variants) = 0
        /\ Segment(av, Draws))
       => /\ last'.outcome = "no-variants"
          /\ last'.drawn = <<>>
          /\ store' = store]_vars

(* segment() failed for want of variants on a store without Assignment *)
C8_Witness ==
  /\ SegmentedNow("no-variants")
  /\ exp.variants = <<>>
  /\ last.prior = Null
  /\ ~HasAssignment

(* C9: every failed segment() call, whatever its cause and whatever the   *)
(* store held before it, leaves no Assignment persisted for the           *)
(* experiment.                                                            *)
C9_FailedSegmentLeavesNone ==
  (last.op = "segment" /\ last.outcome # "ok") => ~HasAssignment

(* C9 as amended: a failed segment() call writes no Assignment.  After a  *)
(* failure with the expired error none is persisted; after a failure with *)
(* the no-variants or the storage-unavailable error the experiment's item *)
(* is what it was before the call, so an Assignment persisted earlier     *)
(* remains.                                                               *)
C9_FailedSegmentWritesNone ==
  (last.op = "segment" /\ last.outcome # "ok") =>
    \/ last.outcome = "expired" /\ ~HasAssignment
    \/ /\ last.outcome \in {"no-variants", "storage-unavailable"}
       /\ ExperimentItem = last.prior

(* segment() failed for want of variants and the Assignment of an earlier *)
(* instance is still persisted                                            *)
C9_Witness ==
  /\ SegmentedNow("no-variants")
  /\ last.prior # Null
  /\ ExperimentItem = last.prior

(* C10: start() walks the variant list in registration order and, for     *)
(* each registered variant whose id equals the persisted Assignment's     *)
(* variant id, first runs all 'start' handlers, passing the Assignment,   *)
(* and only then invokes that variant's action; no action of a variant    *)
(* with another id is invoked.  A call that returns normally has made     *)
(* exactly these calls, a call that fails a leading part of them.         *)
C10_HandlerCalls ==
  [k \in 1..Len(exp.handlers["start"]) |->
     [kind |-> "handler", event |-> "start", name |-> exp.handlers["start"][k],
      index |-> 0, arg |-> <<[id |-> AssignedId]>>]]

RECURSIVE C10_Expected(_)
C10_Expected(n) ==
  IF n = 0 THEN <<>>
  ELSE IF exp.variants[n].id = AssignedId
       THEN C10_Expected(n - 1) \o C10_HandlerCalls
            \o <<[kind |-> "action", event |-> "", name |-> AssignedId,
                  index |-> n, arg |-> UndefinedValue]>>
       ELSE C10_Expected(n - 1)

C10_StartOrder ==
  (last.op = "start" /\ HasAssignment) =>
    LET expected == C10_Expected(Len(exp.variants))
    IN  /\ last.outcome = "ok" => last.log = expected
        /\ Len(last.log) <= Len(expected)
        /\ last.log = SubSeq(expected, 1, Len(last.log))
        /\ \A k \in 1..Len(last.log) :
             last.log[k].kind = "action" => last.log[k].name = AssignedId

(* start() returned after running a handler and then the action of the    *)
(* assigned second variant, passing over the first *)
C10_Witness ==
  /\ last.op = "start"
  /\ last.outcome = "ok"
  /\ HasAssignment
  /\ Len(exp.variants) = 2
  /\ exp.variants[1].id # AssignedId
  /\ exp.variants[2].id = AssignedId
  /\ Len(last.log) = 2
  /\ last.log[1].kind = "handler"
  /\ last.log[2].kind = "action"
  /\ last.log[2].index = 2

----------------------------------------------------------------------------
(* The handler calls one firing of an event makes on the instance: the    *)
(* registered handlers in order, up to and with the first that throws     *)

FirstThrowing(callbacks) ==
  {k \in 1..Len(callbacks) :
     /\ callbacks[k] = "hThrow"
     /\ \A j \in 1..(k - 1) : callbacks[j] # "hThrow"}

Reached(callbacks) ==
  IF FirstThrowing(callbacks) = {} THEN Len(callbacks)
  ELSE CHOOSE k \in FirstThrowing(callbacks) : TRUE

ExpectedCalls(event, arg) ==
  [k \in 1..Reached(exp.handlers[event]) |->
     [kind |-> "handler", event |-> event, name |-> exp.handlers[event][k],
      index |-> 0, arg |-> arg]]

(* C11: start() called while no Assignment is persisted is a no-op for    *)
(* every variant list, empty or not: it returns normally, fires no        *)
(* 'start' handler, invokes no variant action and changes no state.       *)
C11_StartWithoutAssignmentNoOp ==
  [][(exp.constructed /\ ~HasAssignment /\ Start(TRUE))
       => /\ last'.outcome = "ok"
          /\ last'.log = <<>>
          /\ store' = store
          /\ exp' = exp]_vars

(* C12: for every variant list, whatever its variant ids, start() invokes *)
(* no variant action and fires no 'start' handler for a user whose        *)
(* Assignment is 'not-participating' or 'no-chosen-variant'.              *)
C12_SentinelUsersNeverStart ==
  (/\ last.op = "start"
   /\ HasAssignment
   /\ AssignedId \in {NotParticipatingId, NoChosenVariantId})
  => last.log = <<>>

(* C13: complete() on an instance with hasConverted = false and no        *)
(* persisted Assignment, the store being available, sets hasConverted to  *)
(* true and calls the 'complete' handlers in order, each once, with an    *)
(* undefined assignment; it returns normally unless one of them throws,   *)
(* which ends the calls.  The store is unchanged.                         *)
C13_CompleteWithoutAssignment ==
  [][(exp.constructed /\ ~exp.hasConverted /\ ~HasAssignment /\ Complete(TRUE))
       => /\ exp'.hasConverted
          /\ last'.log = ExpectedCalls("complete", UndefinedValue)
          /\ last'.outcome =
               (IF FirstThrowing(exp.handlers["complete"]) = {}
                THEN "ok" ELSE "handler-error")
          /\ store' = store]_vars

(* complete() without a segment() ran two handlers with no assignment *)
C13_Witness ==
  /\ last.op = "complete"
  /\ last.outcome = "ok"
  /\ last.prior = Null
  /\ ~HasAssignment
  /\ exp.hasConverted
  /\ Len(exp.handlers["complete"]) = 2
  /\ Len(last.log) = 2
  /\ last.log[1].arg = UndefinedValue
  /\ last.log[2].arg = UndefinedValue

(* C14: every handler that start() or complete() calls receives the       *)
(* Assignment persisted for the experiment when the event fires: the      *)
(* parsed record naming the assigned variant (undefined when none is      *)
(* persisted).                                                            *)
C14_HandlersReceiveAssignment ==
  last.op \in {"start", "complete"} =>
    \A k \in 1..Len(last.log) :
      last.log[k].kind = "handler" =>
        /\ last.log[k].event = last.op
        /\ last.log[k].arg =
             (IF HasAssignment THEN <<[id |-> AssignedId]>> ELSE UndefinedValue)

(* a 'complete' handler was called with the Assignment naming the variant *)
(* that segment() had drawn for the user                                  *)
C14_Witness ==
  /\ last.op = "complete"
  /\ last.outcome = "ok"
  /\ HasAssignment
  /\ AssignedId \in RegisteredIds
  /\ Len(last.log) > 0
  /\ last.log[1].arg = <<[id |-> AssignedId]>>

(* C15: with the Key-Value Store absent, every call that reaches a store  *)
(* access fails there with the storage-unavailable error: a construction  *)
(* with a valid id (no instance is produced), segment(), start() and      *)
(* complete().  The calls that end before their first store access fail   *)
(* as they do with a store: segment() without variants on a non-expired   *)
(* experiment, complete() on a converted one.  None of these calls        *)
(* changes hasConverted, the variant list, the handlers or the store, and *)
(* none invokes a handler or an action.                                   *)
C15_StorageUnavailableFails ==
  [][/\ \A id \in Strings(ExpIds) :
          Construct(id, UndefinedValue, UndefinedValue, FALSE, FailureDraws)
            => /\ last'.outcome = "storage-unavailable"
               /\ exp' = exp
               /\ store' = store
     /\ (exp.constructed /\ Segment(FALSE, {347020}))
          => /\ last'.outcome =
                  (IF ~hasExpired(exp, now) /\ Len(exp.variants) = 0
                   THEN "no-variants" ELSE "storage-unavailable")
             /\ last'.drawn = <<>>
             /\ exp' = exp
             /\ store' = store
     /\ (exp.constructed /\ Start(FALSE))
          => /\ last'.outcome = "storage-unavailable"
             /\ last'.log = <<>>
             /\ exp' = exp
             /\ store' = store
     /\ (exp.constructed /\ Complete(FALSE))
          => /\ last'.outcome =
                  (IF exp.hasConverted THEN "already-complete"
                   ELSE "storage-unavailable")
             /\ last'.log = <<>>
             /\ exp' = exp
             /\ store' = store]_vars

(* complete() failed for want of a store on an instance that has a        *)
(* 'complete' handler and an Assignment, and has not converted            *)
C15_Witness ==
  /\ last.op = "complete"
  /\ last.outcome = "storage-unavailable"
  /\ ~exp.hasConverted
  /\ exp.handlers["complete"] # <<>>
  /\ HasAssignment
  /\ last.log = <<>>

(* C16: construction succeeds exactly when the id is a non-empty string:  *)
(* with an id that is missing, not a string or empty it fails with the    *)
(* validation error and writes nothing to the store, with any non-empty   *)
(* string it succeeds and the instance's id is the given id.              *)
C16_NonEmptyStringIds ==
  [][\A id \in Strings(ExpIds) \cup {UndefinedArgument, NumberArgument} :
       Construct(id, UndefinedValue, UndefinedValue, TRUE, FailureDraws)
         => IF id.type = "string" /\ id.value # ""
            THEN /\ last'.outcome = "ok"
                 /\ exp'.constructed
                 /\ exp'.id = id.value
            ELSE /\ last'.outcome = "validation"
                 /\ store' = store
                 /\ exp' = exp]_vars

(* C17: addVariant with a missing or non-string id, and on with a missing *)
(* or non-string event name, fail with the validation error and leave the *)
(* variant list, the handler table, hasConverted and the store unchanged. *)
C17_InvalidNamesRejected ==
  [][\A name \in {UndefinedArgument, NumberArgument} :
       /\ (exp.constructed /\ AddVariant(name, UndefinedValue))
            => /\ last'.outcome = "validation"
               /\ exp' = exp
               /\ store' = store
       /\ (exp.constructed /\ On(name, "h1"))
            => /\ last'.outcome = "validation"
               /\ exp' = exp
               /\ store' = store]_vars

(* addVariant was rejected on an instance that holds a variant, a handler *)
(* and an Assignment                                                      *)
C17_Witness ==
  /\ last.op = "addVariant"
  /\ last.outcome = "validation"
  /\ Len(exp.variants) = 1
  /\ exp.handlers["start"] # <<>>
  /\ HasAssignment

(* C18: after a successful construction the store holds a UserIdentity,   *)
(* the decimal string of an integer in [0, 100000); when the construction *)
(* generated it from a draw r, it is floor(r * 100000), the integer n     *)
(* with n <= r * 100000 < n + 1.                                          *)
C18_IdentityFromDraw ==
  /\ exp.constructed =>
       /\ getItem(store, uidKey) # Null
       /\ Identity \in 0..(max - 1)
       /\ getItem(store, uidKey) = NumberToString(Identity)
  /\ (last.op = "construct" /\ last.outcome = "ok" /\ Len(last.drawn) = 1) =>
       /\ Identity * Scale <= last.drawn[1]
       /\ last.drawn[1] < (Identity + 1) * Scale

(* the largest draw below 1 gave the identity 99999 *)
C18_Witness ==
  /\ last.op = "construct"
  /\ last.outcome = "ok"
  /\ last.drawn = <<Unit - 1>>
  /\ Identity = max - 1

(* The names of the handlers a call invoked, in the order of the calls *)
HandlerNames(log) ==
  LET calls == SelectSeq(log, LAMBDA c : c.kind = "handler")
  IN  [k \in 1..Len(calls) |-> calls[k].name]

RECURSIVE Repeated(_, _)
Repeated(s, n) == IF n = 0 THEN <<>> ELSE s \o Repeated(s, n - 1)

(* The number of registered variants that carry the assigned id *)
Matching ==
  IF HasAssignment
  THEN Cardinality({i \in 1..Len(exp.variants) : exp.variants[i].id = AssignedId})
  ELSE 0

(* C19: one firing of an event calls the handlers registered for it, each *)
(* once and in the order of their registration, and no handler that was   *)
(* registered for the other event: complete() fires 'complete' once,      *)
(* start() fires 'start' once for every registered variant that carries   *)
(* the assigned id.  (A handler that throws ends the call: then the calls *)
(* made are the handlers up to it, C20.)                                  *)
C19_HandlersInRegistrationOrder ==
  /\ (last.op = "complete" /\ last.outcome \in {"ok", "handler-error"}) =>
       /\ \A k \in 1..Len(last.log) :
            last.log[k].kind = "handler" /\ last.log[k].event = "complete"
       /\ HandlerNames(last.log) =
            SubSeq(exp.handlers["complete"], 1, Reached(exp.handlers["complete"]))
       /\ last.outcome = "ok" => HandlerNames(last.log) = exp.handlers["complete"]
  /\ (last.op = "start" /\ last.outcome \in {"ok", "handler-error"}) =>
       /\ \A k \in 1..Len(last.log) :
            last.log[k].kind = "handler" => last.log[k].event = "start"
       /\ last.outcome = "ok" =>
            HandlerNames(last.log) = Repeated(exp.handlers["start"], Matching)
       /\ last.outcome = "handler-error" =>
            HandlerNames(last.log) =
              SubSeq(exp.handlers["start"], 1, Reached(exp.handlers["start"]))

(* complete() called h2 and then h1, registered in that order *)
C19_Witness ==
  /\ last.op = "complete"
  /\ last.outcome = "ok"
  /\ exp.handlers["complete"] = <<"h2", "h1">>
  /\ HandlerNames(last.log) = <<"h2", "h1">>

(* C20: when a handler throws while start() or complete() fires an event, *)
(* the call fails with what the handler threw and the throwing handler is *)
(* the last thing the call invoked: no later handler, and in start() no   *)
(* variant action and no further matching variant, comes after it.  A     *)
(* call fails this way only when a handler threw.                         *)
C20_ThrowingHandlerAborts ==
  last.op \in {"start", "complete"} =>
    /\ \A k \in 1..Len(last.log) :
         (last.log[k].kind = "handler" /\ Throws(last.log[k].name)) =>
           /\ k = Len(last.log)
           /\ last.outcome = "handler-error"
    /\ last.outcome = "handler-error" =>
         /\ Len(last.log) > 0
         /\ last.log[Len(last.log)].kind = "handler"
         /\ Throws(last.log[Len(last.log)].name)

(* start() failed in the first handler: the second handler, the action    *)
(* and the second matching variant were not reached                       *)
C20_Witness ==
  /\ last.op = "start"
  /\ last.outcome = "handler-error"
  /\ Matching = 2
  /\ exp.handlers["start"] = <<"hThrow", "h1">>
  /\ Len(last.log) = 1

C22_HasExpiredPure ==
  [][HasExpired =>
       /\ last'.outcome \in {"true", "false"}
       /\ last'.outcome = "true"
            <=> \E t \in 0..MaxTime : exp.expiry = <<t>> /\ t < now
       /\ exp' = exp
       /\ store' = store]_vars

(* hasExpired() returned false at the very time of the expiry *)
C22_Witness ==
  /\ last.op = "hasExpired"
  /\ last.outcome = "false"
  /\ exp.expiry = <<now>>

(* C29: segment() checks the expiry, then the variants, then the existing *)
(* Assignment: on an expired experiment without variants it fails with    *)
(* the expired error, on a non-expired experiment without variants it     *)
(* fails with the no-variants error, also when an Assignment is           *)
(* persisted.                                                             *)
C29_CheckOrder ==
  [][\A av \in BOOLEAN :
       (exp.constructed /\ Len(exp.variants) = 0 /\ Segment(av, {347020}))
         => last'.outcome =
              (IF hasExpired(exp, now) THEN "expired" ELSE "no-variants")]_vars

(* C29 as amended: on an expired experiment without variants segment()    *)
(* fails with the expired error when the store is available and with the  *)
(* storage-unavailable error when it is not, never with the no-variants   *)
(* error; on a non-expired experiment without variants it fails with the  *)
(* no-variants error and leaves the store as it is, also when an          *)
(* Assignment is persisted.                                               *)
C29_ExpiryThenVariantsThenAssignment ==
  [][\A av \in BOOLEAN :
       (exp.constructed /\ Len(exp.variants) = 0 /\ Segment(av, {347020}))
         => /\ last'.outcome =
                 (IF hasExpired(exp, now)
                  THEN IF av THEN "expired" ELSE "storage-unavailable"
                  ELSE "no-variants")
            /\ ~hasExpired(exp, now) => store' = store]_vars

(* segment() failed with the expired error on an instance without         *)
(* variants, removing the Assignment an earlier instance had written      *)
C29_Witness ==
  /\ SegmentedNow("expired")
  /\ exp.variants = <<>>
  /\ last.prior # Null
  /\ ~HasAssignment

(* C23: experiments with different ids on one store share the             *)
(* UserIdentity and have Assignments of their own: once an identity is    *)
(* stored, every experiment built on the store finds that same identity,  *)
(* and no call made for one experiment (construction, segment, start,     *)
(* complete) creates, changes or removes the Assignment of an experiment  *)
(* with another id.                                                       *)
C23_SharedIdentityOwnAssignments ==
  [][/\ \A id \in SharedExpIds :
          id # exp'.id =>
            getItem(store', experimentKey(id)) = getItem(store, experimentKey(id))
     /\ (getItem(store, uidKey) # Null /\ exp.constructed /\ exp'.id # exp.id) =>
          getItem(store', uidKey) = getItem(store, uidKey)]_vars

(* C24: every successful addVariant call appends exactly one entry, with  *)
(* the given id, to the end of the variant list, also when an entry with  *)
(* that id exists already; the earlier entries and their order, the       *)
(* handlers, hasConverted and the store are unchanged.                    *)
C24_AddVariantAppends ==
  [][\A id \in VariantIds :
       (AddVariant(StringValue(id), UndefinedValue) /\ last'.outcome = "ok")
         => /\ Len(exp'.variants) = Len(exp.variants) + 1
            /\ SubSeq(exp'.variants, 1, Len(exp.variants)) = exp.variants
            /\ exp'.variants[Len(exp'.variants)].id = id
            /\ exp'.handlers = exp.handlers
            /\ exp'.hasConverted = exp.hasConverted
            /\ store' = store]_vars

(* a second entry with the id of the first was appended on an instance    *)
(* that has converted and has an Assignment                               *)
C24_Witness ==
  /\ last.op = "addVariant"
  /\ last.outcome = "ok"
  /\ Len(exp.variants) = 2
  /\ exp.variants[1].id = exp.variants[2].id
  /\ exp.hasConverted
  /\ HasAssignment

(* C25: a variant's weight is 0.5 only when no weight was given: a        *)
(* variant registered with an explicit weight w >= 0, 0 included, enters  *)
(* the variant list (and with it the cumulative weight of the weighted    *)
(* draw) with exactly w, a variant registered without a weight with 0.5.  *)
C25_ExplicitWeightKept ==
  [][\A id \in VariantIds, w \in WeightOptions :
       (AddVariant(StringValue(id), w) /\ last'.outcome = "ok")
         => exp'.variants[Len(exp'.variants)].weight =
              (IF w = UndefinedValue THEN Unit \div 2 ELSE w[1])]_vars

(* C26: whenever an Assignment is persisted it is stored under the key    *)
(* "experiment_" + experimentId as a record that holds the id of the      *)
(* assigned variant or sentinel in the field variantId; the identity is   *)
(* stored under the fixed key, whatever the experiment id.                *)
C26_AssignmentRecord ==
  /\ \A k \in Keys \ {uidKey} :
       getItem(store, k) # Null => (exp.constructed /\ k = "experiment_" \o exp.id)
  /\ exp.constructed => getItem(store, "conical_uid") # Null
  /\ HasAssignment =>
       /\ "variantId" \in DOMAIN JSONparse(ExperimentItem)
       /\ JSONparse(ExperimentItem)["variantId"]
            \in VariantIds \cup {NotParticipatingId, NoChosenVariantId}

(* C27: Completed is terminal.  After complete() has succeeded on an      *)
(* instance, no later call on that instance fires a 'start' or 'complete' *)
(* handler, invokes a variant action or writes a new Assignment.          *)
C27_CompletedTerminal ==
  [][(/\ exp.constructed
      /\ exp.hasConverted
      /\ FirstThrowing(exp.handlers["complete"]) = {}
      /\ exp'.hasConverted)
       => /\ last'.log = <<>>
          /\ getItem(store', experimentKey(exp.id))
               \in {Null, getItem(store, experimentKey(exp.id))}]_vars

(* The positions in the variant list of the actions a call invoked, in    *)
(* the order of the calls, and the positions of the variants that carry   *)
(* the assigned id, in list order                                         *)
ActionIndexes(log) ==
  LET calls == SelectSeq(log, LAMBDA c : c.kind = "action")
  IN  [k \in 1..Len(calls) |-> calls[k].index]

RECURSIVE MatchingIndexes(_)
MatchingIndexes(n) ==
  IF n = 0 THEN <<>>
  ELSE IF exp.variants[n].id = AssignedId
       THEN Append(MatchingIndexes(n - 1), n)
       ELSE MatchingIndexes(n - 1)

(* C30: when two or more registered variants share the assigned id,       *)
(* start() invokes only the action of the first of them and fires the     *)
(* 'start' event once.                                                    *)
C30_FirstMatchWins ==
  (last.op = "start" /\ last.outcome = "ok" /\ Matching >= 2) =>
    /\ ActionIndexes(last.log) = <<MatchingIndexes(Len(exp.variants))[1]>>
    /\ HandlerNames(last.log) = exp.handlers["start"]

(* C30 as amended: when two or more registered variants share the         *)
(* assigned id, start() invokes the action of every one of them, in       *)
(* registration order, and fires the 'start' event once for each of them. *)
C30_EveryMatchStarts ==
  (last.op = "start" /\ last.outcome = "ok" /\ Matching >= 2) =>
    /\ ActionIndexes(last.log) = MatchingIndexes(Len(exp.variants))
    /\ HandlerNames(last.log) = Repeated(exp.handlers["start"], Matching)

(* start() ran the handler and the action for both entries with the       *)
(* assigned id                                                            *)
C30_Witness ==
  /\ last.op = "start"
  /\ last.outcome = "ok"
  /\ Matching = 2
  /\ ActionIndexes(last.log) = <<1, 2>>
  /\ Len(exp.handlers["start"]) = 1
  /\ Len(last.log) = 4

(* C28: with two tabs interleaved at single accesses of the store, the     *)
(* write of a tab that found no identity (no Assignment) replaces what    *)
(* the store holds, whatever the other tab put there meanwhile; and a     *)
(* tab has gone on an identity (a variant) other than the one the store   *)
(* holds only after both tabs found none and both wrote one.  The         *)
(* diverging interleaving itself is C28_Witness.                          *)
TabWroteId(tab) == tab.foundId = <<FALSE>> /\ tab.id # <<>>
TabWroteVariant(tab) == tab.foundVariant = <<FALSE>> /\ tab.variant # <<>>
StoredVariantId(st) ==
  LET chosenVariant == getVariant(TabInstance, st)
  IN  IF chosenVariant = UndefinedValue THEN UndefinedValue
      ELSE Field(chosenVariant[1], "id")
DivergedId(tab, st) ==
  \/ tab.id # <<>> /\ tab.id # getId(st)
  \/ tab.basis # <<>> /\ tab.basis # getId(st)
DivergedVariant(tab, st) ==
  \/ tab.variant # <<>> /\ tab.variant # StoredVariantId(st)
  \/ tab.ran # <<>> /\ tab.ran # StoredVariantId(st)

C28_LaterWriteOverwrites ==
  [][\A t \in Tabs :
       /\ (\E r \in TabIdDraws : TabSetId(t, r)) =>
            /\ tabs[t].foundId = <<FALSE>>
            /\ getId(store') = tabs'[t].id
       /\ ((\E r \in TabVariantDraws : TabParticipating(t, r))
             \/ TabNotParticipating(t)) =>
            /\ tabs[t].foundVariant = <<FALSE>>
            /\ StoredVariantId(store') = tabs'[t].variant
       /\ DivergedId(tabs'[t], store') =>
            \A u \in Tabs : TabWroteId(tabs'[u])
       /\ DivergedVariant(tabs'[t], store') =>
            \A u \in Tabs : TabWroteVariant(tabs'[u])
    ]_vars

(* Both tabs are through their script, and one of them went on an         *)
(* identity and ran a variant that the store no longer holds              *)
C28_Witness ==
  \E t \in Tabs :
    /\ \A u \in Tabs : tabs[u].pc = "done"
    /\ tabs[t].id # getId(store)
    /\ tabs[t].ran # StoredVariantId(store)
    /\ \A u \in Tabs : TabWroteId(tabs[u]) /\ TabWroteVariant(tabs[u])

(* C31: start() is repeatable and read-only.  What a start() call invokes *)
(* while the persisted Assignment names a registered variant is fixed by  *)
(* the variant list, the 'start' handlers and the Assignment alone: the   *)
(* handlers and then the action, for every registered variant with the    *)
(* assigned id, whatever calls came before, whether or not the experiment *)
(* has converted or expired (a handler that throws ends the call, C20).   *)
(* No start() call changes the store, the variant list, the handlers or   *)
(* hasConverted.                                                          *)
C31_StartRepeatableReadOnly ==
  [][\A av \in BOOLEAN :
       Start(av) =>
         /\ store' = store
         /\ exp' = exp
         /\ (av /\ HasAssignment /\ AssignedId \in RegisteredIds) =>
              LET expected == C10_Expected(Len(exp.variants))
                  reached == Reached(exp.handlers["start"])
              IN  IF FirstThrowing(exp.handlers["start"]) = {}
                  THEN /\ last'.outcome = "ok"
                       /\ last'.log = expected
                       /\ \E k \in 1..Len(last'.log) : last'.log[k].kind = "action"
                  ELSE /\ last'.outcome = "handler-error"
                       /\ last'.log = SubSeq(expected, 1, reached)
    ]_vars

(* start() has run the handler and the action on an experiment that has   *)
(* converted and expired                                                  *)
C31_Witness ==
  /\ last.op = "start"
  /\ last.outcome = "ok"
  /\ exp.hasConverted
  /\ hasExpired(exp, now)
  /\ HasAssignment
  /\ Len(last.log) = 2
  /\ last.log[1].kind = "handler"
  /\ last.log[2].kind = "action"
  /\ last.log[2].name = AssignedId

(* C32: the randomness source is consumed once per decision.  A           *)
(* construction consumes one draw when it generates a UserIdentity (the   *)
(* store then holds the identity of that draw) and none otherwise (the    *)
(* store is left as it was); segment() consumes one draw when it performs *)
(* the weighted draw for an eligible user (not expired, a variant         *)
(* registered, store available, no Assignment yet) and none in every      *)
(* other case; addVariant, on, start, complete and hasExpired consume     *)
(* none.                                                                  *)
C32_SegmentDraws(av) ==
  /\ ~hasExpired(exp, now)
  /\ Len(exp.variants) > 0
  /\ av
  /\ ~HasAssignment
  /\ C2_Eligible

C32_OneDrawPerDecision ==
  [][/\ DrawsConstruct =>
          /\ Len(last'.drawn) <= 1
          /\ last'.outcome # "ok" => last'.drawn = <<>> /\ store' = store
          /\ last'.drawn = <<>> => store' = store
          /\ last'.drawn # <<>> =>
               /\ getItem(store', uidKey) = NumberToString(RandomId(last'.drawn[1]))
               /\ \/ getItem(store, uidKey) = Null
                  \/ Identity = 0
          /\ (last'.outcome = "ok" /\ getItem(store, uidKey) = Null) =>
               last'.drawn # <<>>
     /\ \A av \in BOOLEAN :
          (exp.constructed /\ Segment(av, DrawsOnOffer)) =>
             /\ Len(last'.drawn) <= 1
             /\ last'.drawn # <<>> <=> C32_SegmentDraws(av)
     /\ last'.op \in {"addVariant", "on", "start", "complete", "hasExpired"} =>
          last'.drawn = <<>>
    ]_vars

(* segment() consumed one draw for an eligible user on a store whose      *)
(* identity an earlier construction had generated from one draw           *)
C32_Witness ==
  /\ SegmentedNow("ok")
  /\ Len(last.drawn) = 1
  /\ last.prior = Null
  /\ HasAssignment
  /\ AssignedId \in RegisteredIds
  /\ Identity = RandomId(347020)

(* C33: for a single instance on an initially empty store, the persisted  *)
(* Assignment, if present, names the id of a variant in the instance's    *)
(* variant list or one of the sentinels 'not-participating' and           *)
(* 'no-chosen-variant'; 'not-participating' is stored only for an         *)
(* ineligible identity and 'no-chosen-variant' only for an eligible one.  *)
C33_AssignmentNamesVariantOrSentinel ==
  (exp.constructed /\ HasAssignment) =>
    /\ AssignedId \in RegisteredIds \cup {NotParticipatingId, NoChosenVariantId}
    /\ AssignedId = NotParticipatingId => ~C2_Eligible
    /\ AssignedId = NoChosenVariantId => C2_Eligible

(* C34: complete() sets hasConverted before it fires the handlers and     *)
(* does not take it back.  On an instance that has not converted, a       *)
(* complete() call without localStorage fails and leaves hasConverted     *)
(* false (so a later call still goes through); a call with the store sets *)
(* hasConverted whether or not a handler throws, and when one throws the  *)
(* handlers registered after it are not invoked.  Every complete() call   *)
(* on a converted instance fails with the already-complete error and      *)
(* invokes nothing.                                                       *)
C34_ConvertedBeforeHandlers ==
  [][\A av \in BOOLEAN :
       (exp.constructed /\ Complete(av)) =>
         IF exp.hasConverted
         THEN /\ last'.outcome = "already-complete"
              /\ last'.log = <<>>
              /\ exp' = exp
         ELSE IF ~av
         THEN /\ last'.outcome = "storage-unavailable"
              /\ last'.log = <<>>
              /\ ~exp'.hasConverted
         ELSE LET handlers == exp.handlers["complete"]
              IN  /\ exp'.hasConverted
                  /\ last'.outcome = IF FirstThrowing(handlers) = {}
                                     THEN "ok" ELSE "handler-error"
                  /\ HandlerNames(last'.log) = SubSeq(handlers, 1, Reached(handlers))
    ]_vars

(* complete() failed in the first handler: the experiment has converted   *)
(* and the handler registered after the throwing one was not invoked      *)
C34_Witness ==
  /\ last.op = "complete"
  /\ last.outcome = "handler-error"
  /\ exp.hasConverted
  /\ exp.handlers["complete"] = <<"hThrow", "h1">>
  /\ HandlerNames(last.log) = <<"hThrow">>

(* C35: hasConverted is state of the instance and is never persisted.     *)
(* The store holds the identity as digits and, per experiment, a record   *)
(* with the one field id; complete() writes nothing.  An instance         *)
(* constructed for the same experiment on the same store after an earlier *)
(* instance has completed starts with hasConverted = false, and its       *)
(* complete() goes through and fires its 'complete' handlers.             *)
C35_ConvertedNotPersisted ==
  [][/\ \A k \in Keys \ {uidKey} :
          store'[k] # Null => DOMAIN JSONparse(store'[k]) = {"id"}
     /\ \A av \in BOOLEAN : (exp.constructed /\ Complete(av)) => store' = store
     /\ SecondConstruct =>
          /\ last'.outcome = "ok"
          /\ ~exp'.hasConverted
          /\ store' = store
     /\ (/\ exp.constructed
         /\ exp.sampleSize = SecondSampleSize
         /\ ~exp.hasConverted
         /\ Complete(TRUE)) =>
          LET handlers == exp.handlers["complete"]
          IN  /\ last'.outcome \in {"ok", "handler-error"}
              /\ last'.outcome = "ok" <=> FirstThrowing(handlers) = {}
              /\ HandlerNames(last'.log) = SubSeq(handlers, 1, Reached(handlers))
              /\ exp'.hasConverted
    ]_vars

(* complete() returned on a later instance, having called its handler,    *)
(* after an earlier instance of the experiment had completed              *)
C35_Witness ==
  /\ last.op = "complete"
  /\ last.outcome = "ok"
  /\ exp.sampleSize = SecondSampleSize
  /\ exp.hasConverted
  /\ HandlerNames(last.log) = <<"h1">>

(* C36: in the prototype-based Experiment constructor, when               *)
(* options.variant is given and names a variant of the experiment,        *)
(* construction puts the user straight into that variant: after           *)
(* construction the persisted Assignment names options.variant, without   *)
(* any segment() call.                                                    *)
C36_OptionPutsUserInVariant ==
  (/\ exp.constructed
   /\ last.op = "construct"
   /\ last.outcome = "ok"
   /\ exp.variant # UndefinedValue
   /\ exp.variant[1].id \in VariantIds) =>
    /\ HasAssignment
    /\ JSONparse(ExperimentItem)["variantId"] = exp.variant[1].id

====
